---- MODULE Spec2Model ----
(***************************************************************************)
(* Model of src/start_mlflow.py: SimpleVolumeSyncDaemon (initial pull,     *)
(* background upload loop, start/stop) and the host main() that drives it. *)
(*                                                                         *)
(* Paths are sequences of path components.  A file tree is a function      *)
(* from the paths that exist to their entries (a directory or a file with  *)
(* its bytes and size).                                                     *)
(***************************************************************************)
EXTENDS Integers, Sequences, FiniteSets, TLC

VARIABLES
    local,        \* the local filesystem below local_path: path -> entry
    remote,       \* the volume below volume_path: path -> entry
    running,      \* SimpleVolumeSyncDaemon.running
    sync_thread,  \* SimpleVolumeSyncDaemon.sync_thread: 0 is None, else a thread id
    thr,          \* the loop threads: id -> position in sync_loop and its locals
    caller,       \* the thread calling start()/stop(): its position
    calls,        \* history of the calls made: see Called
    obs,          \* history: what each thread's current pass found and read
    pull,         \* sync_from_volume: its position, its recursion, what it did
    sdk,          \* DATABRICKS_SDK_AVAILABLE
    host          \* main(): its position, the exit code, what it has set up

vars == <<local, remote, running, sync_thread, thr, caller, calls, obs, pull,
          sdk, host>>

\* what start(), stop() and the loop never touch
frame == <<pull, sdk, host>>

-----------------------------------------------------------------------------
(* Bounds *)

\* how many loop threads may be alive at once
MaxThreads == 2

\* how many times sync_from_volume is called in one behaviour
MaxPulls == 2

-----------------------------------------------------------------------------
(* Program constants *)

\* time.sleep(5) after a pass, time.sleep(10) after a loop-level error
SyncInterval == 5
BackoffInterval == 10
\* sync_thread.join(timeout=2)
JoinTimeout == 2
\* 10 * 1024 * 1024, the size limit of line 113
SizeLimit == 10 * 1024 * 1024

\* local_path = '/tmp/mlflow-sync-data', volume_path = '/Volumes/rag/nst/mlflow-oss'
LocalPath == <<"tmp", "mlflow-sync-data">>
VolumePath == <<"Volumes", "rag", "nst", "mlflow-oss">>

-----------------------------------------------------------------------------
(* The universe of the model: relative paths, contents *)

FileRels == {<<"a">>, <<"d", "b">>}

Contents == {[data |-> "x", size |-> 5],
             [data |-> "y", size |-> SizeLimit - 1],
             [data |-> "z", size |-> SizeLimit]}

\* what the other writers put where: <<"d", "b">> is the file that changes and
\* grows, <<"a">> is written once and for all
Small == [data |-> "x", size |-> 5]
WritesTo(rel) == IF rel = <<"d", "b">> THEN Contents ELSE {Small}

\* where the threads of several start() calls are followed, the other writers
\* keep to the one file that changes
ChangingRels == {<<"d", "b">>}

NoContent == [data |-> "", size |-> 0]
NoPath == <<>>

Dir == [kind |-> "dir", data |-> "", size |-> 4096]
FileEntry(c) == [kind |-> "file", data |-> c.data, size |-> c.size]
ContentOf(e) == [data |-> e.data, size |-> e.size]

-----------------------------------------------------------------------------
(* Path arithmetic *)

\* file_path.relative_to(self.local_path)
RelativeTo(p, base) == SubSeq(p, Len(base) + 1, Len(p))

\* Faulty variant: the file's name alone, as file_path.name would give
VolumeFileByName(volume_path, relative) ==
    volume_path \o <<relative[Len(relative)]>>

\* f"{self.volume_path}/{relative}"
VolumeFile(volume_path, relative) == volume_path \o relative

\* Faulty variant: self.local_path / item.name, whatever directory is being listed
LocalJoinFlat(local_dir, name) == Append(LocalPath, name)

\* local_dir / item.name
LocalJoin(local_dir, name) == Append(local_dir, name)

Parent(p) == SubSeq(p, 1, Len(p) - 1)

\* the directories strictly between root and p
Between(root, p) == {SubSeq(p, 1, k) : k \in (Len(root) + 1)..(Len(p) - 1)}

-----------------------------------------------------------------------------
(* File trees *)

Exists(fs, p) == p \in DOMAIN fs
IsFile(fs, p) == p \in DOMAIN fs /\ fs[p].kind = "file"
IsDir(fs, root, p) == p = root \/ (p \in DOMAIN fs /\ fs[p].kind = "dir")

Put(fs, p, e) == [q \in DOMAIN fs \cup {p} |-> IF q = p THEN e ELSE fs[q]]
Remove(fs, p) == [q \in DOMAIN fs \ {p} |-> fs[q]]

\* files.upload(path, content): the file is written whole, overwriting; the
\* directories on the way to it come to exist
StoreUpload(fs, root, p, c) ==
    [q \in DOMAIN fs \cup {p} \cup Between(root, p) |->
        IF q = p THEN FileEntry(c)
        ELSE IF q \in Between(root, p) THEN Dir
        ELSE fs[q]]

\* main() before its first statement
NoHost == [pc |-> "boot", code |-> -1, client |-> "none", daemon |-> FALSE,
           server |-> "none"]

-----------------------------------------------------------------------------
(* The background loop: one thread per successful start() *)

Threads == 1..MaxThreads

NoThread == [pc |-> "none", todo |-> <<>>, cur |-> NoPath, buf |-> NoContent,
             dur |-> 0]

Alive(t) == thr[t].pc \notin {"none", "dead"}
LiveThreads == {t \in Threads : Alive(t)}

\* self.local_path.rglob('*'): every path found below the local root, a
\* directory before what it holds, names in the order of WalkOrder (the order
\* is the file system's; the model fixes one)
WalkOrder == <<<<"a">>, <<"d">>, <<"d", "b">>, <<"d", "e">>, <<"mlflow-artifacts">>>>
RGlobFrom(fs, root, i) ==
    LET F[k \in 1..(Len(WalkOrder) + 1)] ==
            IF k > Len(WalkOrder) THEN <<>>
            ELSE IF Exists(fs, root \o WalkOrder[k])
                 THEN <<root \o WalkOrder[k]>> \o F[k + 1]
                 ELSE F[k + 1]
    IN  F[i]
RGlob(fs, root) == RGlobFrom(fs, root, 1)

\* Faulty variant: no handler in the loop: the exception ends the thread
LoopExceptEndsThread(r) ==
    [r EXCEPT !.pc = "dead", !.dur = 0,
              !.todo = <<>>, !.cur = NoPath, !.buf = NoContent]

\* except Exception at line 117: log, time.sleep(10); the walk is abandoned
LoopExcept(r) ==
    [r EXCEPT !.pc = "sleep", !.dur = BackoffInterval,
              !.todo = <<>>, !.cur = NoPath, !.buf = NoContent]

\* except Exception at line 99: log only; the walk goes on with the next path
UploadExcept(r) ==
    [r EXCEPT !.pc = "walk", !.cur = NoPath, !.buf = NoContent]

\* the regular files below the size limit, as a pass starting now finds them
SmallFiles(fs) == {p \in DOMAIN fs : fs[p].kind = "file" /\ fs[p].size < SizeLimit}

\* the history of a pass, per file found below the limit when the pass started:
\* the bytes the pass read from it, whether the store accepted them, how many
\* times files.upload was called for it, and whether another writer has
\* deleted it or grown it to the limit since the pass started
Unread == [bytes |-> NoContent, ok |-> FALSE, attempts |-> 0, gone |-> FALSE]

\* no history yet
NoObs(on) == [on |-> on, log |-> [t \in Threads |-> <<>>],
              prev |-> [t \in Threads |-> {}]]

\* the history of thread t's pass becomes l (kept only where obs.on)
Observe(t, l) == IF obs.on THEN [obs EXCEPT !.log[t] = l] ELSE obs

\* the files whose upload the store refused in the pass with history l
RefusedIn(l) == {f \in DOMAIN l : l[f].attempts > 0 /\ ~l[f].ok}

\* a pass of thread t starts with history l; what the pass before it was
\* refused is kept beside it
ObservePass(t, l) ==
    IF obs.on THEN [obs EXCEPT !.log[t] = l, !.prev[t] = RefusedIn(obs.log[t])]
    ELSE obs

\* another writer has deleted p or grown it to the limit
ObserveGone(p) ==
    IF obs.on
    THEN [obs EXCEPT !.log = [t \in Threads |->
                                IF p \in DOMAIN obs.log[t]
                                THEN [obs.log[t] EXCEPT ![p].gone = TRUE]
                                ELSE obs.log[t]]]
    ELSE obs

\* while self.running: (line 104), and the start of a pass
LoopCheck(t) ==
    /\ thr[t].pc = "check"
    /\ thr' = [thr EXCEPT ![t] =
                 IF running
                 THEN [NoThread EXCEPT !.pc = "walk",
                          !.todo = IF sdk THEN RGlob(local, LocalPath) ELSE <<>>]
                 ELSE [NoThread EXCEPT !.pc = "dead"]]
    /\ obs' = ObservePass(t, IF running /\ sdk
                             THEN [p \in SmallFiles(local) |-> Unread]
                             ELSE <<>>)
    /\ UNCHANGED <<local, remote, running, sync_thread, caller, calls, frame>>

\* Faulty variant: the flag is looked at before every item of the walk, and the
\* walk is left for the flag check when it is false
WalkChecksFlag(t) ==
    /\ thr[t].pc = "walk"
    /\ IF ~running
       THEN thr' = [thr EXCEPT ![t] = [NoThread EXCEPT !.pc = "check"]]
       ELSE IF thr[t].todo = <<>>
       THEN thr' = [thr EXCEPT ![t].pc = "sleep", ![t].dur = SyncInterval]
       ELSE LET p == Head(thr[t].todo)
            IN  thr' = [thr EXCEPT ![t].todo = Tail(@),
                                   ![t].pc = IF IsFile(local, p) THEN "stat" ELSE "walk",
                                   ![t].cur = IF IsFile(local, p) THEN p ELSE NoPath]
    /\ UNCHANGED <<local, remote, running, sync_thread, caller, calls, obs, frame>>

\* for file_path in rglob: if file_path.is_file(): (lines 108-109); the
\* exhausted walk falls through to time.sleep(5) (line 116)
Walk(t) ==
    /\ thr[t].pc = "walk"
    /\ IF thr[t].todo = <<>>
       THEN thr' = [thr EXCEPT ![t].pc = "sleep", ![t].dur = SyncInterval]
       ELSE LET p == Head(thr[t].todo)
            IN  thr' = [thr EXCEPT ![t].todo = Tail(@),
                                   ![t].pc = IF IsFile(local, p) THEN "stat" ELSE "walk",
                                   ![t].cur = IF IsFile(local, p) THEN p ELSE NoPath]
    /\ UNCHANGED <<local, remote, running, sync_thread, caller, calls, obs, frame>>

\* if file_path.stat().st_size < 10 * 1024 * 1024: (line 113); stat() of a
\* path that is gone raises, and nothing catches that before line 117
Stat(t) ==
    /\ thr[t].pc = "stat"
    /\ thr' = [thr EXCEPT ![t] =
                 IF ~Exists(local, thr[t].cur) THEN LoopExcept(@)
                 ELSE IF local[thr[t].cur].size < SizeLimit
                      THEN [@ EXCEPT !.pc = "read"]
                      ELSE [@ EXCEPT !.pc = "walk", !.cur = NoPath]]
    /\ UNCHANGED <<local, remote, running, sync_thread, caller, calls, obs, frame>>

\* _upload_file: with open(local_path, 'rb') as f: content = f.read()
Read(t) ==
    /\ thr[t].pc = "read"
    /\ thr' = [thr EXCEPT ![t] =
                 IF IsFile(local, thr[t].cur)
                 THEN [@ EXCEPT !.pc = "upload", !.buf = ContentOf(local[thr[t].cur])]
                 ELSE UploadExcept(@)]
    /\ obs' = IF IsFile(local, thr[t].cur) /\ thr[t].cur \in DOMAIN obs.log[t]
              THEN Observe(t, [obs.log[t] EXCEPT ![thr[t].cur].bytes =
                                  ContentOf(local[thr[t].cur])])
              ELSE obs
    /\ UNCHANGED <<local, remote, running, sync_thread, caller, calls, frame>>

\* the remote path a pass uploads the local file p to (lines 110-111)
UploadTarget(p) == VolumeFile(VolumePath, RelativeTo(p, LocalPath))

\* _upload_file: self.workspace_client.files.upload(volume_path, content)
UploadOk(t) ==
    /\ thr[t].pc = "upload"
    /\ remote' = StoreUpload(remote, VolumePath, UploadTarget(thr[t].cur), thr[t].buf)
    /\ thr' = [thr EXCEPT ![t].pc = "walk", ![t].cur = NoPath, ![t].buf = NoContent]
    /\ obs' = IF thr[t].cur \in DOMAIN obs.log[t]
              THEN Observe(t, [obs.log[t] EXCEPT ![thr[t].cur].ok = TRUE,
                                                 ![thr[t].cur].attempts = @ + 1])
              ELSE obs
    /\ UNCHANGED <<local, running, sync_thread, caller, calls, frame>>

\* Faulty variant: a refused upload is tried once more on the spot
UploadFailRetry(t) ==
    /\ thr[t].pc = "upload"
    /\ thr' = IF thr[t].cur \in DOMAIN obs.log[t]
                  /\ obs.log[t][thr[t].cur].attempts = 0
               THEN thr
               ELSE [thr EXCEPT ![t] = UploadExcept(@)]
    /\ obs' = IF thr[t].cur \in DOMAIN obs.log[t]
              THEN Observe(t, [obs.log[t] EXCEPT ![thr[t].cur].attempts = @ + 1])
              ELSE obs
    /\ UNCHANGED <<local, remote, running, sync_thread, caller, calls, frame>>

\* the same call raising: caught at line 99
UploadFail(t) ==
    /\ thr[t].pc = "upload"
    /\ thr' = [thr EXCEPT ![t] = UploadExcept(@)]
    /\ obs' = IF thr[t].cur \in DOMAIN obs.log[t]
              THEN Observe(t, [obs.log[t] EXCEPT ![thr[t].cur].attempts = @ + 1])
              ELSE obs
    /\ UNCHANGED <<local, remote, running, sync_thread, caller, calls, frame>>

\* Faulty variant: "if self.running:" for "while self.running:": one pass, then the end
SleepThenExit(t) ==
    /\ thr[t].pc = "sleep"
    /\ thr' = [thr EXCEPT ![t] = [NoThread EXCEPT !.pc = "dead"]]
    /\ UNCHANGED <<local, remote, running, sync_thread, caller, calls, obs, frame>>

\* time.sleep(5) or time.sleep(10) returning
Sleep(t) ==
    /\ thr[t].pc = "sleep"
    /\ thr' = [thr EXCEPT ![t].pc = "check", ![t].dur = 0]
    /\ UNCHANGED <<local, remote, running, sync_thread, caller, calls, obs, frame>>

-----------------------------------------------------------------------------
(* start() and stop() *)

\* "none": no call yet; "start": one start() and nothing else; "start2": two
\* or more start() and nothing else; "stop": the last call was stop();
\* "restart": start() after a stop(); "restart2": two or more start() in a
\* row after a stop()
Called(c) ==
    IF c = "stop" THEN "stop"
    ELSE CASE calls = "none" -> "start"
           [] calls \in {"start", "start2"} -> "start2"
           [] calls = "stop" -> "restart"
           [] OTHER -> "restart2"

\* a slot for the Thread object start() creates
FreeSlots == {t \in Threads : ~Alive(t)}
NewThread == CHOOSE t \in FreeSlots : \A u \in FreeSlots : t <= u

\* Faulty variant: start() without the "if self.running: return" of line 123
StartUnguarded ==
    /\ caller = "idle"
    /\ FreeSlots # {}
    /\ calls' = Called("start")
    /\ running' = TRUE
    /\ sync_thread' = NewThread
    /\ thr' = [thr EXCEPT ![NewThread] = [NoThread EXCEPT !.pc = "check"]]
    /\ UNCHANGED <<local, remote, caller, obs, frame>>

\* start(): lines 121-129
StartBody ==
    /\ caller = "idle"
    /\ running \/ FreeSlots # {}
    /\ calls' = Called("start")
    /\ IF running
       THEN UNCHANGED <<running, sync_thread, thr>>
       ELSE /\ running' = TRUE
            /\ sync_thread' = NewThread
            /\ thr' = [thr EXCEPT ![NewThread] = [NoThread EXCEPT !.pc = "check"]]
    /\ UNCHANGED <<local, remote, caller, obs, pull, sdk>>

Start == StartBody /\ UNCHANGED host

\* stop(): self.running = False; if self.sync_thread: join(timeout=2)
StopBody ==
    /\ caller = "idle"
    /\ running' = FALSE
    /\ calls' = Called("stop")
    /\ caller' = IF sync_thread # 0 THEN "joining" ELSE "idle"
    /\ UNCHANGED <<local, remote, sync_thread, thr, obs, pull, sdk>>

Stop == StopBody /\ UNCHANGED host

\* Faulty variant: join() without a timeout
JoinUntilDead ==
    /\ caller = "joining"
    /\ ~Alive(sync_thread)
    /\ caller' = "idle"
    /\ UNCHANGED <<local, remote, running, sync_thread, thr, calls, obs, frame>>

\* self.sync_thread.join(timeout=2) returning: the thread has ended, or the
\* timeout has passed with the thread still alive
JoinReturn ==
    /\ caller = "joining"
    /\ \/ ~Alive(sync_thread)
       \/ Alive(sync_thread)
    /\ caller' = "idle"
    /\ UNCHANGED <<local, remote, running, sync_thread, thr, calls, obs, frame>>

-----------------------------------------------------------------------------
(* Other writers of the local root (the MLflow server writes its databases *)
(* and artifacts there: main(), lines 198-200)                             *)

ExtWrite(p, c) ==
    /\ IsDir(local, LocalPath, Parent(p))
    /\ ~IsDir(local, LocalPath, p)
    /\ local' = Put(local, p, FileEntry(c))
    /\ obs' = IF c.size < SizeLimit THEN obs ELSE ObserveGone(p)
    /\ UNCHANGED <<remote, running, sync_thread, thr, caller, calls, frame>>

ExtDelete(p) ==
    /\ IsFile(local, p)
    /\ local' = Remove(local, p)
    /\ obs' = ObserveGone(p)
    /\ UNCHANGED <<remote, running, sync_thread, thr, caller, calls, frame>>

-----------------------------------------------------------------------------
(* sync_from_volume: the initial pull, run by the caller *)

\* the names list_directory_contents(dir) returns
Children(fs, dir) == {p[Len(p)] : p \in {q \in DOMAIN fs : Parent(q) = dir}}

\* Path.mkdir(parents=True, exist_ok=True): raises when the path, or a
\* directory on the way to it, exists as a regular file
MkdirFails(fs, root, p) == \E q \in Between(root, p) \cup {p} : IsFile(fs, q)

\* Faulty variant: the directory is made afresh (rmtree, then mkdir): what was below
\* it is gone
MkdirsAfresh(fs, root, p) ==
    IF p = root THEN fs
    ELSE [q \in {r \in DOMAIN fs : ~(Len(r) > Len(p) /\ SubSeq(r, 1, Len(p)) = p)}
                  \cup Between(root, p) \cup {p} |->
             IF q \in DOMAIN fs THEN fs[q] ELSE Dir]

Mkdirs(fs, root, p) ==
    IF p = root THEN fs
    ELSE [q \in DOMAIN fs \cup Between(root, p) \cup {p} |->
             IF q \in DOMAIN fs THEN fs[q] ELSE Dir]

NoPull == [pc |-> "idle", stack |-> <<>>, cur |-> NoPath, buf |-> NoContent,
           res |-> "none", runs |-> 0,
           createFailed |-> FALSE, listed |-> {}, tried |-> {}, failed |-> {},
           firstTree |-> <<>>, firstClean |-> FALSE, pairs |-> {}]

\* one activation of _sync_directory(volume_dir, local_dir)
Frame(vdir, ldir) == [vdir |-> vdir, ldir |-> ldir, items |-> {}]

Top == pull.stack[Len(pull.stack)]
Pop(st) == SubSeq(st, 1, Len(st) - 1)

\* the position after the top activation has returned: its caller's loop, or
\* the end of sync_from_volume (line 61)
AfterReturn(pl) ==
    IF Len(pl.stack) = 1
    THEN [pl EXCEPT !.stack = <<>>, !.pc = "done", !.res = "completed"]
    ELSE [pl EXCEPT !.stack = Pop(@), !.pc = "items"]

\* the except of _sync_directory (lines 78-79): the activation in which the
\* exception was raised logs it and returns; what was left of its loop is lost
SyncDirExcept(pl) == AfterReturn(pl)

\* the except of _download_file (lines 89-90): log, and on to the next item
DownloadExcept(pl) == [pl EXCEPT !.pc = "items", !.cur = NoPath, !.buf = NoContent]

\* sync_from_volume() is called (line 48)
PullEnter ==
    /\ caller = "idle"
    /\ pull.pc \in {"idle", "done"}
    /\ pull.runs < MaxPulls
    /\ caller' = "pulling"
    /\ pull' = IF sdk
               THEN [NoPull EXCEPT !.pc = "create", !.runs = pull.runs + 1,
                                   !.firstTree = pull.firstTree,
                                   !.firstClean = pull.firstClean]
               ELSE [NoPull EXCEPT !.pc = "done", !.res = "skipped",
                                   !.runs = pull.runs + 1,
                                   !.firstTree = pull.firstTree,
                                   !.firstClean = pull.firstClean]
    /\ UNCHANGED <<local, remote, running, sync_thread, thr, calls, obs, sdk>>

PullCall == PullEnter /\ UNCHANGED host

\* files.create_directory(self.volume_path) returns (lines 56-57)
CreateOk ==
    /\ pull.pc = "create"
    /\ pull' = [pull EXCEPT !.pc = "list",
                            !.stack = <<Frame(VolumePath, LocalPath)>>]
    /\ UNCHANGED <<local, remote, running, sync_thread, thr, caller, calls, obs, sdk, host>>

\* files.create_directory raises: the except of line 62 is the next statement
CreateFail ==
    /\ pull.pc = "create"
    /\ pull' = [pull EXCEPT !.pc = "done", !.res = "error", !.createFailed = TRUE]
    /\ UNCHANGED <<local, remote, running, sync_thread, thr, caller, calls, obs, sdk, host>>

\* files.list_directory_contents(volume_dir) returns the entries (line 68)
ListOk ==
    /\ pull.pc = "list"
    /\ pull' = [pull EXCEPT !.pc = "items",
                            !.stack[Len(pull.stack)].items = Children(remote, Top.vdir),
                            !.listed = @ \cup {Top.vdir}]
    /\ UNCHANGED <<local, remote, running, sync_thread, thr, caller, calls, obs, sdk, host>>

\* files.list_directory_contents raises
ListFail ==
    /\ pull.pc = "list"
    /\ pull' = SyncDirExcept([pull EXCEPT !.listed = @ \cup {Top.vdir},
                                          !.failed = @ \cup {Top.vdir}])
    /\ UNCHANGED <<local, remote, running, sync_thread, thr, caller, calls, obs, sdk, host>>

\* the for loop of _sync_directory is exhausted: the activation returns
Return ==
    /\ pull.pc = "items"
    /\ Top.items = {}
    /\ pull' = AfterReturn(pull)
    /\ UNCHANGED <<local, remote, running, sync_thread, thr, caller, calls, obs, sdk, host>>

\* Faulty variant: no mkdir for a remote directory (line 74 left out): a directory
\* comes to exist locally only as the parent of a downloaded file
ItemNoMkdir ==
    /\ pull.pc = "items"
    /\ \E name \in Top.items :
         LET vp == Top.vdir \o <<name>>
             lp == LocalJoin(Top.ldir, name)
             pl == [pull EXCEPT !.stack[Len(pull.stack)].items = @ \ {name},
                                !.tried = @ \cup {vp}]
         IN  \/ /\ IsDir(remote, VolumePath, vp)
                /\ local' = local
                /\ pull' = [pl EXCEPT !.pc = "list",
                                      !.stack = Append(pl.stack, Frame(vp, lp))]
             \/ /\ IsFile(remote, vp)
                /\ pull' = [pl EXCEPT !.pc = "download", !.cur = vp]
                /\ local' = local
    /\ UNCHANGED <<remote, running, sync_thread, thr, caller, calls, obs, sdk, host>>

\* one item of the for loop (lines 69-77)
Item ==
    /\ pull.pc = "items"
    /\ \E name \in Top.items :
         LET vp == Top.vdir \o <<name>>
             lp == LocalJoin(Top.ldir, name)
             pl == [pull EXCEPT !.stack[Len(pull.stack)].items = @ \ {name},
                                !.tried = @ \cup {vp}]
         IN  \/ /\ IsDir(remote, VolumePath, vp)
                /\ MkdirFails(local, LocalPath, lp)
                /\ pull' = SyncDirExcept([pl EXCEPT !.failed = @ \cup {vp}])
                /\ local' = local
             \/ /\ IsDir(remote, VolumePath, vp)
                /\ ~MkdirFails(local, LocalPath, lp)
                /\ local' = Mkdirs(local, LocalPath, lp)
                /\ pull' = [pl EXCEPT !.pc = "list",
                                      !.stack = Append(pl.stack, Frame(vp, lp))]
             \/ /\ IsFile(remote, vp)
                /\ pull' = [pl EXCEPT !.pc = "download", !.cur = vp]
                /\ local' = local
    /\ UNCHANGED <<remote, running, sync_thread, thr, caller, calls, obs, sdk, host>>

\* the local path _sync_directory pairs with the remote path being downloaded
DownloadTarget == LocalJoin(Top.ldir, pull.cur[Len(pull.cur)])

\* files.download(volume_path) returns the content (line 84)
DownloadOk ==
    /\ pull.pc = "download"
    /\ IsFile(remote, pull.cur)
    /\ pull' = [pull EXCEPT !.pc = "write", !.buf = ContentOf(remote[pull.cur])]
    /\ UNCHANGED <<local, remote, running, sync_thread, thr, caller, calls, obs, sdk, host>>

\* files.download raises
DownloadFail ==
    /\ pull.pc = "download"
    /\ pull' = DownloadExcept([pull EXCEPT !.failed = @ \cup {pull.cur}])
    /\ UNCHANGED <<local, remote, running, sync_thread, thr, caller, calls, obs, sdk, host>>

\* Faulty variant: a file that exists locally is left as it is
WriteLocalKeepsExisting ==
    /\ pull.pc = "write"
    /\ LET lp == DownloadTarget
       IN  IF MkdirFails(local, LocalPath, Parent(lp))
           THEN /\ local' = local
                /\ pull' = DownloadExcept([pull EXCEPT !.failed = @ \cup {pull.cur}])
           ELSE IF IsDir(local, LocalPath, lp)
           THEN /\ local' = Mkdirs(local, LocalPath, Parent(lp))
                /\ pull' = DownloadExcept([pull EXCEPT !.failed = @ \cup {pull.cur}])
           ELSE /\ local' = IF IsFile(local, lp) THEN local
                             ELSE Put(Mkdirs(local, LocalPath, Parent(lp)), lp,
                                      FileEntry(pull.buf))
                /\ pull' = [pull EXCEPT !.pc = "items", !.cur = NoPath,
                                        !.buf = NoContent]
    /\ UNCHANGED <<remote, running, sync_thread, thr, caller, calls, obs, sdk, host>>

\* Faulty variant: open(local_path, 'ab'): what is downloaded is appended
WriteLocalAppend ==
    /\ pull.pc = "write"
    /\ LET lp == DownloadTarget
           old == IF IsFile(local, lp) THEN ContentOf(local[lp]) ELSE NoContent
       IN  IF MkdirFails(local, LocalPath, Parent(lp))
           THEN /\ local' = local
                /\ pull' = DownloadExcept([pull EXCEPT !.failed = @ \cup {pull.cur}])
           ELSE IF IsDir(local, LocalPath, lp)
           THEN /\ local' = Mkdirs(local, LocalPath, Parent(lp))
                /\ pull' = DownloadExcept([pull EXCEPT !.failed = @ \cup {pull.cur}])
           ELSE /\ local' = Put(Mkdirs(local, LocalPath, Parent(lp)), lp,
                                 FileEntry([data |-> old.data \o pull.buf.data,
                                            size |-> old.size + pull.buf.size]))
                /\ pull' = [pull EXCEPT !.pc = "items", !.cur = NoPath,
                                        !.buf = NoContent]
    /\ UNCHANGED <<remote, running, sync_thread, thr, caller, calls, obs, sdk, host>>

\* local_path.parent.mkdir(...); open(local_path, 'wb'); f.write(content)
\* (lines 85-87): mkdir raises as above, open raises on a directory (history:
\* pairs, the <<local path written, remote path downloaded>> of this run)
WriteLocal ==
    /\ pull.pc = "write"
    /\ LET lp == DownloadTarget
       IN  IF MkdirFails(local, LocalPath, Parent(lp))
           THEN /\ local' = local
                /\ pull' = DownloadExcept([pull EXCEPT !.failed = @ \cup {pull.cur}])
           ELSE IF IsDir(local, LocalPath, lp)
           THEN /\ local' = Mkdirs(local, LocalPath, Parent(lp))
                /\ pull' = DownloadExcept([pull EXCEPT !.failed = @ \cup {pull.cur}])
           ELSE /\ local' = Put(Mkdirs(local, LocalPath, Parent(lp)), lp,
                                 FileEntry(pull.buf))
                /\ pull' = [pull EXCEPT !.pc = "items", !.cur = NoPath,
                                        !.buf = NoContent,
                                        !.pairs = @ \cup {<<lp, pull.cur>>}]
    /\ UNCHANGED <<remote, running, sync_thread, thr, caller, calls, obs, sdk, host>>

\* sync_from_volume returns to its caller (history: the local tree the first
\* run leaves, and whether that run went through without any failure)
PullExit ==
    /\ caller = "pulling"
    /\ pull.pc = "done"
    /\ caller' = "idle"
    /\ pull' = IF pull.runs = 1
               THEN [pull EXCEPT !.firstTree = local,
                                 !.firstClean = (pull.res = "completed"
                                                 /\ pull.failed = {})]
               ELSE pull
    /\ UNCHANGED <<local, remote, running, sync_thread, thr, calls, obs, sdk>>

PullReturn == PullExit /\ UNCHANGED host

\* the trees the pull is run on
RemoteTrees ==
    LET f(c) == FileEntry(c)
        x == [data |-> "x", size |-> 5]
        y == [data |-> "y", size |-> SizeLimit - 1]
        V(rel) == VolumePath \o rel
    IN  { <<>>,
          (V(<<"a">>) :> f(x)) @@ (V(<<"d">>) :> Dir) @@ (V(<<"d", "b">>) :> f(y)),
          (V(<<"d">>) :> Dir) @@ (V(<<"d", "b">>) :> f(x)) @@ (V(<<"d", "e">>) :> Dir) }

LocalTrees ==
    LET f(c) == FileEntry(c)
        x == [data |-> "x", size |-> 5]
        y == [data |-> "y", size |-> SizeLimit - 1]
        L(rel) == LocalPath \o rel
    IN  { <<>>,
          (L(<<"d">>) :> f(x)),
          (L(<<"a">>) :> Dir),
          (L(<<"a">>) :> f(y)) @@ (L(<<"d">>) :> Dir) @@ (L(<<"d", "b">>) :> f(y)) }

InitPull ==
    /\ local \in LocalTrees
    /\ remote \in RemoteTrees
    /\ running = FALSE
    /\ sync_thread = 0
    /\ thr = [t \in Threads |-> NoThread]
    /\ caller = "idle"
    /\ calls = "none"
    /\ obs = NoObs(FALSE)
    /\ pull = NoPull
    /\ sdk = TRUE
    /\ host = NoHost

NextPull ==
    \/ PullCall
    \/ CreateOk
    \/ CreateFail
    \/ ListOk
    \/ ListFail
    \/ Return
    \/ Item
    \/ DownloadOk
    \/ DownloadFail
    \/ WriteLocal
    \/ PullReturn

SpecPull == InitPull /\ [][NextPull]_vars

-----------------------------------------------------------------------------
(* The daemon driven through its methods *)

LocalOf(rel) == LocalPath \o rel

Init ==
    /\ local = [p \in {LocalOf(<<"d">>)} |-> Dir]
    /\ remote = <<>>
    /\ running = FALSE
    /\ sync_thread = 0
    /\ thr = [t \in Threads |-> NoThread]
    /\ caller = "idle"
    /\ calls = "none"
    /\ obs = NoObs(FALSE)
    /\ pull = NoPull
    /\ sdk = TRUE
    /\ host = NoHost

Next ==
    \/ Start
    \/ Stop
    \/ JoinReturn
    \/ \E t \in Threads : LoopCheck(t)
    \/ \E t \in Threads : Walk(t)
    \/ \E t \in Threads : Stat(t)
    \/ \E t \in Threads : Read(t)
    \/ \E t \in Threads : UploadOk(t)
    \/ \E t \in Threads : UploadFail(t)
    \/ \E t \in Threads : Sleep(t)
    \/ \E r \in ChangingRels : \E c \in WritesTo(r) : ExtWrite(LocalOf(r), c)
    \/ \E r \in ChangingRels : ExtDelete(LocalOf(r))

Spec == Init /\ [][Next]_vars

-----------------------------------------------------------------------------
(* One loop thread running passes, with the history of each pass kept *)

InitPass ==
    /\ local = [p \in {LocalOf(<<"d">>)} |-> Dir]
    /\ remote = <<>>
    /\ running = FALSE
    /\ sync_thread = 0
    /\ thr = [t \in Threads |-> NoThread]
    /\ caller = "idle"
    /\ calls = "none"
    /\ obs = NoObs(TRUE)
    /\ pull = NoPull
    /\ sdk = TRUE
    /\ host = NoHost

NextPass ==
    \/ Start
    \/ \E t \in Threads : LoopCheck(t)
    \/ \E t \in Threads : Walk(t)
    \/ \E t \in Threads : Stat(t)
    \/ \E t \in Threads : Read(t)
    \/ \E t \in Threads : UploadOk(t)
    \/ \E t \in Threads : UploadFail(t)
    \/ \E t \in Threads : Sleep(t)
    \/ \E r \in FileRels : \E c \in WritesTo(r) : ExtWrite(LocalOf(r), c)
    \/ \E r \in FileRels : ExtDelete(LocalOf(r))

SpecPass == InitPass /\ [][NextPass]_vars

-----------------------------------------------------------------------------
(* main(): the host process *)

ArtifactRoot == LocalPath \o <<"mlflow-artifacts">>

HostAlive == host.pc \notin {"exited", "crashed"}

\* an exception no handler of main() catches: traceback, exit code 1
HostCrash(h) == [h EXCEPT !.pc = "crashed", !.code = 1]

\* lines 187-188 with DATABRICKS_SDK_AVAILABLE false: no daemon
HostNoSdk ==
    /\ host.pc = "boot"
    /\ ~sdk
    /\ host' = [host EXCEPT !.pc = "setup"]
    /\ UNCHANGED <<local, remote, running, sync_thread, thr, caller, calls, obs,
                   pull, sdk>>

\* line 189: SimpleVolumeSyncDaemon(...) with WorkspaceClient() succeeding
HostConstruct ==
    /\ host.pc = "boot"
    /\ sdk
    /\ host' = [host EXCEPT !.pc = "pull", !.client = "ok", !.daemon = TRUE]
    /\ UNCHANGED <<local, remote, running, sync_thread, thr, caller, calls, obs,
                   pull, sdk>>

\* line 189 with WorkspaceClient() raising at line 40 (no credentials): neither
\* __init__ nor main() has a handler around it
HostConstructFail ==
    /\ host.pc = "boot"
    /\ sdk
    /\ host' = HostCrash([host EXCEPT !.client = "failed"])
    /\ UNCHANGED <<local, remote, running, sync_thread, thr, caller, calls, obs,
                   pull, sdk>>

\* Faulty variant: the pull is handed to a thread of its own and main() goes on
HostPullDetached ==
    /\ host.pc = "pull"
    /\ caller = "idle"
    /\ pull.pc \in {"idle", "done"}
    /\ pull.runs < MaxPulls
    /\ pull' = [NoPull EXCEPT !.pc = "create", !.runs = pull.runs + 1]
    /\ host' = [host EXCEPT !.pc = "start"]
    /\ UNCHANGED <<local, remote, running, sync_thread, thr, caller, calls, obs, sdk>>

\* line 190: sync_daemon.sync_from_volume()
HostPull ==
    /\ host.pc = "pull"
    /\ PullEnter
    /\ host' = [host EXCEPT !.pc = "pulling"]

HostPulled ==
    /\ host.pc = "pulling"
    /\ PullExit
    /\ host' = [host EXCEPT !.pc = "start"]

\* line 191: sync_daemon.start()
HostStart ==
    /\ host.pc = "start"
    /\ StartBody
    /\ host' = [host EXCEPT !.pc = "setup"]

\* lines 194-231: copy_ui_assets() (which catches what it raises), the two
\* mkdir calls, the signal handlers, and subprocess.run is entered
HostSetup ==
    /\ host.pc = "setup"
    /\ IF MkdirFails(local, LocalPath, ArtifactRoot)
       THEN /\ host' = HostCrash(host)
            /\ local' = local
       ELSE /\ host' = [host EXCEPT !.pc = "serve", !.server = "running"]
            /\ local' = Mkdirs(local, LocalPath, ArtifactRoot)
    /\ UNCHANGED <<remote, running, sync_thread, thr, caller, calls, obs, pull, sdk>>

\* SIGTERM, SIGINT or KeyboardInterrupt: handle_shutdown (lines 220-224)
HostSignal ==
    /\ host.pc = "serve"
    /\ IF host.daemon
       THEN StopBody
       ELSE UNCHANGED <<local, remote, running, sync_thread, thr, caller, calls,
                        obs, pull, sdk>>
    /\ host' = [host EXCEPT !.pc = "shutdown", !.server = "ended"]

\* sys.exit(0) at line 224, once stop() has returned
HostExit ==
    /\ host.pc = "shutdown"
    /\ caller = "idle"
    /\ host' = [host EXCEPT !.pc = "exited", !.code = 0]
    /\ thr' = [t \in Threads |-> IF Alive(t) THEN [NoThread EXCEPT !.pc = "dead"]
                                  ELSE thr[t]]
    /\ UNCHANGED <<local, remote, running, sync_thread, caller, calls, obs, pull, sdk>>

\* subprocess.run raises (check=True): lines 234-236, sys.exit(1)
HostServerError ==
    /\ host.pc = "serve"
    /\ host' = [host EXCEPT !.pc = "exited", !.code = 1, !.server = "failed"]
    /\ thr' = [t \in Threads |-> IF Alive(t) THEN [NoThread EXCEPT !.pc = "dead"]
                                  ELSE thr[t]]
    /\ UNCHANGED <<local, remote, running, sync_thread, caller, calls, obs, pull, sdk>>

\* what main() finds below /tmp/mlflow-sync-data: nothing, or what an earlier
\* run of the process left there
HostLocalTrees ==
    LET y == [data |-> "y", size |-> SizeLimit - 1]
    IN  { <<>>,
          (LocalOf(<<"a">>) :> FileEntry(y)) @@ (LocalOf(<<"d">>) :> Dir)
              @@ (LocalOf(<<"d", "b">>) :> FileEntry(y)) }

InitHost ==
    /\ local \in HostLocalTrees
    /\ remote \in RemoteTrees
    /\ running = FALSE
    /\ sync_thread = 0
    /\ thr = [t \in Threads |-> NoThread]
    /\ caller = "idle"
    /\ calls = "none"
    /\ obs = NoObs(FALSE)
    /\ pull = NoPull
    /\ sdk \in BOOLEAN
    /\ host = NoHost

\* the threads of the process run while the process does
NextHost ==
    \/ HostNoSdk
    \/ HostConstruct
    \/ HostConstructFail
    \/ HostPull
    \/ HostPulled
    \/ HostStart
    \/ HostSetup
    \/ HostSignal
    \/ HostExit
    \/ HostServerError
    \/ CreateOk
    \/ CreateFail
    \/ ListOk
    \/ ListFail
    \/ Return
    \/ Item
    \/ DownloadOk
    \/ DownloadFail
    \/ WriteLocal
    \/ JoinReturn
    \/ \E t \in Threads : HostAlive /\ LoopCheck(t)
    \/ \E t \in Threads : HostAlive /\ Walk(t)
    \/ \E t \in Threads : HostAlive /\ Stat(t)
    \/ \E t \in Threads : HostAlive /\ Read(t)
    \/ \E t \in Threads : HostAlive /\ UploadOk(t)
    \/ \E t \in Threads : HostAlive /\ UploadFail(t)
    \/ \E t \in Threads : HostAlive /\ Sleep(t)
    \/ \E r \in FileRels : \E c \in WritesTo(r) :
          host.pc = "serve" /\ ExtWrite(LocalOf(r), c)
    \/ \E r \in FileRels : host.pc = "serve" /\ ExtDelete(LocalOf(r))

SpecHost == InitHost /\ [][NextHost]_vars

-----------------------------------------------------------------------------
(* The running daemon under fair scheduling: a loop thread that can take a  *)
(* step eventually takes one (the store's upload call returns, sleeps end), *)
(* and an upload of a file that is attempted again and again is accepted    *)
(* again and again (the proviso of the mirroring claim)                     *)

LoopStep(t) ==
    \/ LoopCheck(t) \/ Walk(t) \/ Stat(t) \/ Read(t)
    \/ UploadOk(t) \/ UploadFail(t) \/ Sleep(t)

\* a step of sync_from_volume, between its call and its return
PullStep ==
    \/ CreateOk \/ CreateFail \/ ListOk \/ ListFail \/ Return \/ Item
    \/ DownloadOk \/ DownloadFail \/ WriteLocal

Fairness ==
    \A t \in Threads :
        /\ WF_vars(LoopStep(t))
        /\ \A r \in FileRels : SF_vars(UploadOk(t) /\ thr[t].cur = LocalOf(r))

SpecLive == Init /\ [][NextPass]_vars /\ Fairness

-----------------------------------------------------------------------------
(* Properties of the initial pull *)

\* the remote directories above the remote entry e, the remote root included
DirsAbove(e) == {SubSeq(e, 1, k) : k \in Len(VolumePath)..(Len(e) - 1)}

\* sync_from_volume has come to its end after the walk (line 61)
PullCompleted == pull.pc = "done" /\ pull.res = "completed"

\* C3 as stated: an error at one remote entry costs that entry (and, for a
\* directory, its subtree) and nothing else: when the pull is over, every
\* remote entry with no failure at a directory above it has been processed.
C3_FailureIsolation ==
    PullCompleted =>
        \A e \in DOMAIN remote :
            DirsAbove(e) \cap pull.failed = {} => e \in pull.tried

\* C4 as stated: when create_directory on the remote root has failed, the
\* remote root is still listed.
C4_PullGoesOnAfterCreateFails ==
    (pull.pc = "done" /\ pull.createFailed) => VolumePath \in pull.listed

\* the second run of sync_from_volume is over
SecondPullOver == pull.runs = 2 /\ pull.pc = "done"

\* C11 as stated: with the remote tree unchanged, the local tree after the
\* second run of sync_from_volume is the local tree after the first.
C11_PullIdempotent == SecondPullOver => local = pull.firstTree

\* C11 amended: the same, when no store or filesystem operation failed in
\* either run.
C11_PullIdempotentNoFailure ==
    (SecondPullOver /\ PullCompleted /\ pull.failed = {} /\ pull.firstClean)
        => local = pull.firstTree

\* two runs without a failure over a remote tree with files, the second run
\* having written a/ d/b again over what the first left
C11_Witness ==
    /\ SecondPullOver /\ PullCompleted /\ pull.failed = {} /\ pull.firstClean
    /\ IsFile(remote, VolumePath \o <<"d", "b">>)
    /\ IsFile(local, LocalOf(<<"d", "b">>))
    /\ VolumePath \o <<"d", "b">> \in pull.tried

\* local_root/p for the remote path remote_root/p
PulledPath(e) == LocalPath \o SubSeq(e, Len(VolumePath) + 1, Len(e))

\* C12: when sync_from_volume has run with no store or filesystem operation
\* failing, every remote file is a local file at the corresponding path with
\* the same content, and every remote directory, an empty one included, is a
\* local directory at the corresponding path.
C12_PullComplete ==
    (PullCompleted /\ pull.failed = {}) =>
        \A e \in DOMAIN remote :
            IF remote[e].kind = "file"
            THEN /\ IsFile(local, PulledPath(e))
                 /\ ContentOf(local[PulledPath(e)]) = ContentOf(remote[e])
            ELSE /\ Exists(local, PulledPath(e))
                 /\ local[PulledPath(e)].kind = "dir"

\* a pull without failures over the remote tree with the file d/b and the
\* empty directory d/e
C12_Witness ==
    /\ PullCompleted /\ pull.failed = {}
    /\ IsFile(remote, VolumePath \o <<"d", "b">>)
    /\ Exists(remote, VolumePath \o <<"d", "e">>)
    /\ Children(remote, VolumePath \o <<"d", "e">>) = {}
    /\ Exists(local, LocalOf(<<"d", "e">>))
    /\ IsFile(local, LocalOf(<<"d", "b">>))

-----------------------------------------------------------------------------
(* Properties of the host *)

\* C10 as stated: when the store client cannot be constructed (no SDK, or
\* WorkspaceClient() raising), no daemon exists and the host is not aborted:
\* it goes on to launch the server.
C10_HostSurvivesNoClient ==
    (~sdk \/ host.client = "failed") =>
        (~host.daemon /\ host.pc # "crashed")

-----------------------------------------------------------------------------
(* Properties of the background loop *)

\* volume_path + "/" + relative_path(f), for a local file f
MappedPath(f) == VolumePath \o SubSeq(f, Len(LocalPath) + 1, Len(f))

\* thread t has finished a walk and is in the sleep that follows it
PassCompleted(t) == thr[t].pc = "sleep" /\ thr[t].dur = SyncInterval

\* C1 as stated: when a pass has completed, every regular file that was below
\* 10 MiB when the pass started is in the store at its mapped path, with the
\* bytes the pass read.
C1_MappingAfterPass ==
    \A t \in Threads :
        PassCompleted(t) =>
            \A f \in DOMAIN obs.log[t] :
                /\ obs.log[t][f].bytes # NoContent
                /\ Exists(remote, MappedPath(f))
                /\ remote[MappedPath(f)] = FileEntry(obs.log[t][f].bytes)

\* C1 amended: every file a pass found below 10 MiB, read, and whose upload
\* the store accepted is in the store at its mapped path with the bytes the
\* pass read, from that upload on until the next accepted upload to that path
\* (with one loop thread: through the end of the pass and the sleep after it).
C1_AcceptedUploadIsMirrored ==
    \A t \in Threads :
        \A f \in DOMAIN obs.log[t] :
            obs.log[t][f].ok =>
                /\ Exists(remote, MappedPath(f))
                /\ remote[MappedPath(f)] = FileEntry(obs.log[t][f].bytes)

\* a completed pass in which the upload of d/b was accepted and that of a failed
C1_Witness ==
    \E t \in Threads :
        /\ PassCompleted(t)
        /\ DOMAIN obs.log[t] = {LocalOf(<<"a">>), LocalOf(<<"d", "b">>)}
        /\ obs.log[t][LocalOf(<<"d", "b">>)].ok
        /\ obs.log[t][LocalOf(<<"a">>)].bytes # NoContent
        /\ ~obs.log[t][LocalOf(<<"a">>)].ok

\* C2 as stated: nothing of 10 MiB or more is ever handed to files.upload.
C2_NeverUploadsLarge ==
    \A t \in Threads : thr[t].pc = "upload" => thr[t].buf.size < SizeLimit

\* a stop() has been called since thread t was started
StopRequested(t) == Alive(t) /\ (t # sync_thread \/ ~running)

\* C5 as stated: a loop thread that was running when stop() was called starts
\* no new pass once its current iteration is over.
C5_NoPassAfterStop ==
    [][\A t \in Threads :
          (StopRequested(t) /\ thr[t].pc = "check") => thr'[t].pc # "walk"]_vars

\* C6: a start() that follows a start() changes nothing and spawns nothing, and
\* after start() calls alone exactly one loop thread is alive, the one
\* sync_thread names.
C6_IdempotentStart ==
    /\ [](calls \in {"start", "start2"} => LiveThreads = {sync_thread})
    /\ [][(Start /\ calls \in {"start", "start2", "restart", "restart2"})
              => UNCHANGED <<thr, sync_thread, running>>]_vars

\* start() was called twice in a row and the one thread is in the middle of a pass
C6_Witness ==
    /\ calls = "start2"
    /\ Cardinality(LiveThreads) = 1
    /\ thr[sync_thread].pc = "upload"

\* C7 as stated: an exception raised while uploading sends the loop to the
\* longer back-off sleep.
C7_UploadErrorBacksOff ==
    [][\A t \in Threads :
          (UploadFail(t) \/ (Read(t) /\ ~IsFile(local, thr[t].cur)))
              => (thr'[t].pc = "sleep" /\ thr'[t].dur = BackoffInterval)]_vars

\* C7 amended: an exception that escapes per-file handling (stat() of a file
\* that is gone) sends the thread to the back-off sleep; after either sleep the
\* thread rechecks the flag and starts another pass if it is set; an exception
\* inside _upload_file leaves the thread in its walk; a thread ends only at
\* the flag check, finding the flag false.
C7_LoopSurvivesErrors ==
    [][\A t \in Threads :
          /\ (thr[t].pc = "stat" /\ ~Exists(local, thr[t].cur) /\ thr'[t] # thr[t])
                => (thr'[t].pc = "sleep" /\ thr'[t].dur = BackoffInterval)
          /\ (thr[t].pc = "sleep" /\ thr'[t] # thr[t]) => thr'[t].pc = "check"
          /\ (thr[t].pc = "check" /\ thr'[t] # thr[t] /\ running)
                => thr'[t].pc = "walk"
          /\ (thr[t].pc \in {"read", "upload"} /\ thr'[t] # thr[t])
                => thr'[t].pc \in {"upload", "walk"}
          /\ (Alive(t) /\ thr'[t].pc = "dead")
                => (thr[t].pc = "check" /\ ~running)]_vars

\* a thread in the back-off sleep while the daemon is running
C7_Witness ==
    \E t \in Threads :
        thr[t].pc = "sleep" /\ thr[t].dur = BackoffInterval /\ running

\* the daemon runs and the local file at rel holds c
Holds(rel, c) ==
    /\ running
    /\ IsFile(local, LocalOf(rel))
    /\ ContentOf(local[LocalOf(rel)]) = c

\* the store holds c at the remote path of rel
Mirrored(rel, c) ==
    /\ IsFile(remote, VolumePath \o rel)
    /\ ContentOf(remote[VolumePath \o rel]) = c

\* C14: a pass never calls files.upload twice for one file, and a pass that
\* has finished its walk has called it exactly once for every file that was a
\* regular file below the limit from the start of the pass on, whatever its
\* content and whatever became of its upload in the pass before.
C14_OneAttemptPerPass ==
    \A t \in Threads :
        /\ \A f \in DOMAIN obs.log[t] : obs.log[t][f].attempts <= 1
        /\ PassCompleted(t) =>
              \A f \in DOMAIN obs.log[t] :
                  ~obs.log[t][f].gone => obs.log[t][f].attempts = 1

\* a finished pass that attempted a once after the pass before it was refused
\* on a, and attempted the unchanged d/b once as well
C14_Witness ==
    \E t \in Threads :
        /\ PassCompleted(t)
        /\ LocalOf(<<"a">>) \in obs.prev[t]
        /\ DOMAIN obs.log[t] = {LocalOf(<<"a">>), LocalOf(<<"d", "b">>)}
        /\ \A f \in DOMAIN obs.log[t] :
              ~obs.log[t][f].gone /\ obs.log[t][f].attempts = 1
        /\ Mirrored(<<"d", "b">>, Small)

\* a pass has just been abandoned for the back-off sleep
Abandoned == \E t \in Threads : thr[t].pc = "sleep" /\ thr[t].dur = BackoffInterval

\* C8 as stated: while the daemon runs, a file below the limit that stays
\* under the local root is eventually in the store with its content.
C8_EventuallyMirrored ==
    \A rel \in FileRels :
        \A c \in {k \in WritesTo(rel) : k.size < SizeLimit} :
            <>[]Holds(rel, c) => <>[]Mirrored(rel, c)

\* C8 amended: the same, provided that from some point on no pass is abandoned
\* by an exception that reaches the loop's handler.
C8_MirroredUnlessAbandoned ==
    \A rel \in FileRels :
        \A c \in {k \in WritesTo(rel) : k.size < SizeLimit} :
            (<>[]Holds(rel, c) /\ <>[]~Abandoned) => <>[]Mirrored(rel, c)

\* d/b, rewritten by another writer while the daemon runs, is in the store
\* with its new content
C8_Witness ==
    /\ Holds(<<"d", "b">>, [data |-> "y", size |-> SizeLimit - 1])
    /\ Mirrored(<<"d", "b">>, [data |-> "y", size |-> SizeLimit - 1])
    /\ Mirrored(<<"a">>, Small)

\* C13 as stated: once the flag is false a loop thread takes no further item
\* from its walk: it finishes the item it is at and goes to recheck the flag.
C13_StopsAfterCurrentItem ==
    [][\A t \in Threads :
          (~running /\ thr[t].pc = "walk" /\ thr[t].todo # <<>>)
              => thr'[t].pc \notin {"stat", "read", "upload"}]_vars

\* C13 amended: stop() leaves every thread where it is, an upload in flight
\* ends in the walk it belongs to (accepted or refused by the store, never cut
\* off), the walk goes on item by item whatever the flag is, and the flag is
\* rechecked only after the sleep that follows the pass.
C13_PassFinishesAfterStop ==
    [][/\ Stop => thr' = thr
       /\ \A t \in Threads :
            /\ (thr[t].pc = "upload" /\ thr'[t] # thr[t])
                  => /\ thr'[t].pc = "walk"
                     /\ thr'[t].todo = thr[t].todo
                     /\ remote' \in {remote,
                                     StoreUpload(remote, VolumePath,
                                                 UploadTarget(thr[t].cur), thr[t].buf)}
            /\ (thr[t].pc = "walk" /\ thr[t].todo # <<>> /\ thr'[t] # thr[t])
                  => /\ thr'[t].todo = Tail(thr[t].todo)
                     /\ thr'[t].pc = IF IsFile(local, Head(thr[t].todo))
                                     THEN "stat" ELSE "walk"
            /\ (thr'[t].pc = "check" /\ thr[t].pc # "check")
                  => thr[t].pc \in {"sleep", "none", "dead"}]_vars

\* stop() is waiting in join() while the thread, the flag false, is in its walk
\* with d/b still to come
C13_Witness ==
    \E t \in Threads :
        /\ ~running /\ caller = "joining" /\ t = sync_thread
        /\ thr[t].pc = "walk"
        /\ thr[t].todo = <<LocalOf(<<"d", "b">>)>>
        /\ IsFile(local, LocalOf(<<"d", "b">>))

\* C15: the pull having returned without a failure, every remote file is
\* locally what it is remotely, whatever was there locally before (remote wins,
\* whole); a pass reads the whole local file as it then is, and an accepted
\* upload leaves exactly the bytes read at the remote path, whatever was there
\* before (local wins, whole).
C15_LastWriterWins ==
    /\ []((host.pc = "start" /\ PullCompleted /\ pull.failed = {}) =>
            \A e \in DOMAIN remote :
                remote[e].kind = "file" =>
                    /\ IsFile(local, PulledPath(e))
                    /\ local[PulledPath(e)] = remote[e])
    /\ [][\A t \in Threads :
            /\ (thr[t].pc = "read" /\ thr'[t].pc = "upload")
                  => thr'[t].buf = ContentOf(local[thr[t].cur])
            /\ (thr[t].pc = "upload" /\ remote' # remote)
                  => /\ IsFile(remote', MappedPath(thr[t].cur))
                     /\ ContentOf(remote'[MappedPath(thr[t].cur)]) = thr[t].buf]_vars

\* local d/b was y and remote d/b was x: the pull made the local file x; then
\* another writer made the local file y again and a pass made the remote file y
C15_Witness ==
    /\ host.pc = "serve"
    /\ IsFile(local, LocalOf(<<"a">>)) /\ local[LocalOf(<<"a">>)].data = "y"
    /\ Exists(remote, VolumePath \o <<"d", "e">>)
    /\ PullCompleted /\ pull.failed = {}
    /\ pull.firstTree[LocalOf(<<"d", "b">>)].data = "x"
    /\ Holds(<<"d", "b">>, [data |-> "y", size |-> SizeLimit - 1])
    /\ Mirrored(<<"d", "b">>, [data |-> "y", size |-> SizeLimit - 1])

\* C16: in the host, start() is called only when sync_from_volume has
\* returned, and whenever the flag is set or a loop thread exists the pull is
\* over: no step of the pull happens beside a step of the loop.
C16_PullBeforeLoop ==
    /\ []((running \/ LiveThreads # {}) => (pull.pc = "done" /\ caller # "pulling"))
    /\ [][HostStart => (pull.pc = "done" /\ pull.runs = 1 /\ caller = "idle")]_vars

\* the loop's thread is uploading d/b, which the pull, now over, downloaded
C16_Witness ==
    /\ PullCompleted
    /\ VolumePath \o <<"d", "b">> \in pull.tried
    /\ sync_thread # 0
    /\ thr[sync_thread].pc = "upload"
    /\ thr[sync_thread].cur = LocalOf(<<"d", "b">>)
    /\ host.pc = "setup"

\* C17: the loop maps every local path the pull wrote back to the remote path
\* the pull downloaded into it; an accepted upload of such a file changes the
\* store at that remote path and nowhere else; and two different local paths
\* never have the same remote path.
C17_PathRoundTrip ==
    /\ [](\A pr \in pull.pairs : UploadTarget(pr[1]) = pr[2])
    /\ [](\A p, q \in DOMAIN local : p # q => UploadTarget(p) # UploadTarget(q))
    /\ [][\A t \in Threads :
            (thr[t].pc = "upload" /\ remote' # remote) =>
                \A pr \in pull.pairs :
                    pr[1] = thr[t].cur =>
                        /\ IsFile(remote', pr[2])
                        /\ \A e \in DOMAIN remote \ {pr[2]} :
                              e \in DOMAIN remote' /\ remote'[e] = remote[e]]_vars

\* the pull downloaded a and d/b, two levels of directories, and the loop has
\* uploaded d/b, rewritten since by another writer, to where it came from
C17_Witness ==
    /\ pull.pairs = {<<LocalOf(<<"a">>), VolumePath \o <<"a">>>>,
                     <<LocalOf(<<"d", "b">>), VolumePath \o <<"d", "b">>>>}
    /\ \E t \in Threads : thr[t].pc = "walk" /\ thr[t].todo = <<>>
    /\ Mirrored(<<"d", "b">>, Small)
    /\ Holds(<<"d", "b">>, Small)

\* the loop threads that are in a pass
InPass == {t \in Threads : thr[t].pc \in {"walk", "stat", "read", "upload"}}

\* C18 as stated: whatever start() and stop() calls were made, never two loop
\* threads are in a pass at the same time.
C18_AtMostOneLoop == Cardinality(InPass) <= 1

\* C19: a step of a loop thread changes nothing locally, removes nothing from
\* the store and changes the store at most at the remote path of the local
\* file it has read; a step of sync_from_volume changes nothing in the store,
\* removes nothing locally and changes an existing local entry only where it
\* writes the remote file of the corresponding path.
C19_NothingDeleted ==
    [][/\ \A t \in Threads :
            LoopStep(t) =>
                /\ local' = local
                /\ \A e \in DOMAIN remote :
                      /\ e \in DOMAIN remote'
                      /\ remote'[e] # remote[e] =>
                            /\ thr[t].pc = "upload"
                            /\ e = MappedPath(thr[t].cur)
                            /\ ContentOf(remote'[e]) = thr[t].buf
       /\ PullStep =>
            /\ remote' = remote
            /\ \A f \in DOMAIN local :
                  /\ f \in DOMAIN local'
                  /\ local'[f] # local[f] =>
                        /\ pull.pc = "write"
                        /\ IsFile(remote, pull.cur)
                        /\ f = PulledPath(pull.cur)
                        /\ ContentOf(local'[f]) = ContentOf(remote[pull.cur])]_vars

\* the local file a, which the store never had, has outlived the pull; d/b,
\* pulled and then deleted locally, is still in the store as it was, after the
\* loop has uploaded a
C19_Witness ==
    /\ host.pc = "serve"
    /\ PullCompleted
    /\ Exists(remote, VolumePath \o <<"d", "e">>)
    /\ Holds(<<"a">>, [data |-> "y", size |-> SizeLimit - 1])
    /\ Mirrored(<<"a">>, [data |-> "y", size |-> SizeLimit - 1])
    /\ ~Exists(local, LocalOf(<<"d", "b">>))
    /\ Mirrored(<<"d", "b">>, Small)
    /\ \E t \in Threads : PassCompleted(t)

\* C9: stop() clears the flag; with no thread it returns at once; while it
\* waits in join() its return is always possible, whatever the thread does.
C9_StopReturns ==
    /\ [](caller = "joining" => ENABLED JoinReturn)
    /\ [][Stop => (/\ ~running'
                   /\ (sync_thread = 0 => caller' = "idle"))]_vars

\* stop() has returned while the thread it waited for is still uploading
C9_Witness ==
    /\ calls = "stop"
    /\ caller = "idle"
    /\ sync_thread # 0
    /\ thr[sync_thread].pc = "upload"

====
